---- MODULE Spec2Model ----
(***************************************************************************)
(* A model of evident's effect_size.py: the task generators                *)
(* (_generate_alphas, _generate_betas), the executor (effect_size) and the *)
(* comparator (_process_column), over a small universe of input files.     *)
(*                                                                         *)
(* Strings are TLA+ strings, joined with \o as '.'.join does.  A path is   *)
(* the sequence of its components.  A p-value is an integer number of      *)
(* thousandths (10 is 0.01); NaN and None are two integers outside the     *)
(* range of p-values.  The variance and the mean of a Comparison record    *)
(* are left out: the record keeps the p-value, the two labels and the two  *)
(* lengths.                                                                *)
(***************************************************************************)
EXTENDS Integers, Sequences, FiniteSets, TLC

VARIABLES
    mappings,     \* the mapping file paths given to effect_size, in order
    alphas,       \* the alpha file paths given to effect_size
    betas,        \* the beta file paths given to effect_size
    jobs,         \* n_jobs
    permutations, \* the permutation count
    overwrite,    \* the overwrite flag of the current run
    rerun,        \* whether this call follows a call that returned (same inputs)
    status,       \* "running", "done" (returned), "error" (raised) or "interrupted"
    candidates,   \* the cross product of the loaded inputs the generator walks
    gi,           \* the generator's position in the cross product
    queue,        \* tasks the generator yielded that no worker has started
    running,      \* the _process_column calls in progress
    files,        \* the output directory: artifact path -> pickled results
    nEmitted,     \* how many tasks the generator yielded in this run
    prevPaths     \* the artifact paths that existed when this run began

vars == <<mappings, alphas, betas, jobs, permutations, overwrite, rerun, status,
          candidates, gi, queue, running, files, nEmitted, prevPaths>>

config == <<mappings, alphas, betas, jobs, permutations>>

-----------------------------------------------------------------------------
(* Bounds of the model. *)

MaxJobs == 2

MaxMappings == 2

-----------------------------------------------------------------------------
(* Generic helpers. *)

\* The concatenation of the sequences ss[1], ..., ss[Len(ss)]: what a for
\* loop yields, given what each of its iterations yields.
RECURSIVE Concat(_)
Concat(ss) == IF Len(ss) = 0 THEN <<>> ELSE Head(ss) \o Concat(Tail(ss))

\* The subsequences of s (order kept) of at most n elements.
SubSeqsUpTo(s, n) ==
    LET f[i \in 0..Len(s)] ==
            IF i = 0 THEN {<<>>}
            ELSE f[i - 1] \cup {Append(t, s[i]) : t \in f[i - 1]}
    IN  {t \in f[Len(s)] : Len(t) <= n}

-----------------------------------------------------------------------------
(* The universe of input files.  pd.read_csv(f, sep='\t', dtype=str,       *)
(* na_values=na_values) followed by set_index('#SampleID') gives, for each *)
(* file, its columns in file order and a value or NA for each sample.      *)

NA == "NA"

M1 == <<"d1", "m">>

M2 == <<"d1", "m.m">>

M3 == <<"d2", "m">>

A1 == <<"d1", "a">>

B1 == <<"d1", "b">>

MappingFiles == <<M1, M2, M3>>

AlphaFiles == <<A1>>

BetaFiles == <<B1>>

PermutationCounts == {99}

\* The sample identifiers of every alpha table and distance matrix.
MeasuredIds == {"s1", "s2", "s3", "s4", "s5"}

\* The sample identifiers of a mapping table.
MappedIds(f) == IF f = M3 THEN {"s1", "s2", "s6"} ELSE MeasuredIds

\* mf.columns.values of the table read from a mapping or an alpha file.
Columns(f) ==
    CASE f = M1 -> <<"m.c", "k">>
      [] f = M2 -> <<"c">>
      [] f = M3 -> <<"e", "m.c">>
      [] f = A1 -> <<"x">>

\* The table read from a file: column -> (sample identifier -> value).
\*   M1: m.c has the groups g1 = {s1, s2} and g2 = {s3}; k has g1 alone.
\*   M2: c has the groups g1 = {s1, s2}, g2 = {s3, s4} and g3 = {s5}.
\*   M3: holds s6, which no measurement has; e has g1 = {s1, s2} and
\*       g2 = {s6}; m.c has g1 = {s1, s6} alone.
\*   A1: x has one entry that is not a number.
Table(f) ==
    CASE f = M1 -> [col \in {"m.c", "k"} |-> [s \in MappedIds(M1) |->
                      CASE s \in {"s1", "s2"} -> "g1"
                        [] s = "s3" -> IF col = "m.c" THEN "g2" ELSE "g1"
                        [] OTHER -> NA]]
      [] f = M2 -> [col \in {"c"} |-> [s \in MappedIds(M2) |->
                      CASE s \in {"s1", "s2"} -> "g1"
                        [] s \in {"s3", "s4"} -> "g2"
                        [] OTHER -> "g3"]]
      [] f = M3 -> [col \in {"m.c", "e"} |-> [s \in MappedIds(M3) |->
                      CASE s = "s1" -> "g1"
                        [] s = "s2" -> IF col = "m.c" THEN NA ELSE "g1"
                        [] OTHER -> IF col = "m.c" THEN "g1" ELSE "g2"]]
      [] f = A1 -> [col \in {"x"} |-> [s \in MeasuredIds |->
                      IF s = "s2" THEN "high" ELSE "1"]]

\* The order in which groupby sorts the group labels.
LabelOrder == <<"g1", "g2", "g3">>

Numerals == {"1"}

-----------------------------------------------------------------------------
(* Pure functions of the source. *)

\* os.path.basename: the last component of a path.
basename(path) == path[Len(path)]

\* str(n) for a natural number n.
Digit(d) ==
    CASE d = 0 -> "0" [] d = 1 -> "1" [] d = 2 -> "2" [] d = 3 -> "3"
      [] d = 4 -> "4" [] d = 5 -> "5" [] d = 6 -> "6" [] d = 7 -> "7"
      [] d = 8 -> "8" [] d = 9 -> "9"

RECURSIVE str(_)
str(n) == IF n < 10 THEN Digit(n) ELSE str(n \div 10) \o Digit(n % 10)

\* '.'.join(finfo)
RECURSIVE Join(_)
Join(finfo) ==
    IF Len(finfo) = 0 THEN ""
    ELSE IF Len(finfo) = 1 THEN finfo[1]
    ELSE finfo[1] \o "." \o Join(Tail(finfo))

\* hashlib.md5(s.encode()).hexdigest(), taken as an injective function of s.
md5(s) == "md5(" \o s \o ")"

output == "out"

\* join(output, '%s.pickle' % name)
ArtifactPath(name) == output \o "/" \o name \o ".pickle"

\* os.path.exists(fname), on the output directory.
exists(fname) == fname \in DOMAIN files

\* pd.to_numeric(v, errors='coerce') of one value.
to_numeric(v) == IF v \in Numerals THEN v ELSE NA

\* series.dropna(): the sample identifiers whose value is not NA.
dropna(series) == {s \in DOMAIN series : series[s] # NA}

-----------------------------------------------------------------------------
(* The task generators.  A task carries its data by reference: the file    *)
(* (and column) of the measurement and of the grouping column.             *)

\* Faulty variants of the generators' test: the overwrite flag is ignored;
\* the cache is never consulted; the two conditions are joined by `and`.
ShouldEmitIgnoringOverwrite(fname) == ~exists(fname)

ShouldEmitAlways(fname) == TRUE

ShouldEmitAnd(fname) == ~exists(fname) /\ overwrite

\* The test of both generators: `if not exists(fname) or overwrite`.
ShouldEmit(fname) == ~exists(fname) \/ overwrite

\* Faulty variant: the name is hashed over the whole path of the mapping file too.
CandidateHashedByPath(data, cseries, finfo) ==
    [data |-> data, cseries |-> cseries, finfo |-> finfo,
     fname |-> ArtifactPath(md5(Join(cseries[1] \o finfo)))]

\* finfo, name and fname of one combination, and the tuple it would yield.
Candidate(data, cseries, finfo) ==
    [data |-> data, cseries |-> cseries, finfo |-> finfo,
     fname |-> ArtifactPath(md5(Join(finfo)))]

\* The combinations _generate_betas goes through, in its order.
generate_betas ==
    Concat([b \in DOMAIN betas |->
      Concat([m \in DOMAIN mappings |->
        [c \in DOMAIN Columns(mappings[m]) |->
           Candidate(<<betas[b]>>, <<mappings[m], Columns(mappings[m])[c]>>,
                     <<basename(betas[b]), basename(mappings[m]),
                       Columns(mappings[m])[c], str(permutations)>>)]])])

\* The combinations _generate_alphas goes through, in its order.
generate_alphas ==
    Concat([a \in DOMAIN alphas |->
      Concat([ac \in DOMAIN Columns(alphas[a]) |->
        Concat([m \in DOMAIN mappings |->
          [c \in DOMAIN Columns(mappings[m]) |->
             Candidate(<<alphas[a], Columns(alphas[a])[ac]>>,
                       <<mappings[m], Columns(mappings[m])[c]>>,
                       <<basename(alphas[a]), Columns(alphas[a])[ac],
                         basename(mappings[m]), Columns(mappings[m])[c]>>)]])])])

\* `if betas:` in effect_size: the branch the run takes.
BetaBranch == betas # <<>>

\* The combinations of the generator the run consumes.
CrossProduct == IF BetaBranch THEN generate_betas ELSE generate_alphas

\* Faulty variant: the alpha branch runs its calls through a pool too.
WorkersInEveryMode == jobs

\* How many _process_column calls can be in progress: joblib's pool in the
\* beta branch, the for loop itself in the alpha branch.
Workers == IF BetaBranch THEN jobs ELSE 1

\* Faulty variant: the generator is run to its end before any call starts.
CanPullEager == TRUE

\* Whether the consumer asks the generator for its next task: the for loop
\* (and joblib with one job) when the previous call has returned, joblib's
\* pool while fewer than pre_dispatch = 2 * n_jobs tasks are outstanding.
CanPull ==
    IF Workers = 1
    THEN queue = <<>> /\ running = {}
    ELSE Len(queue) + Cardinality(running) < 2 * Workers

\* One step of the generator: it reaches the next combination and yields it
\* or skips it.
Generate ==
    /\ status = "running"
    /\ gi <= Len(candidates)
    /\ CanPull
    /\ gi' = gi + 1
    /\ IF ShouldEmit(candidates[gi].fname)
       THEN /\ queue' = Append(queue, candidates[gi])
            /\ nEmitted' = nEmitted + 1
       ELSE UNCHANGED <<queue, nEmitted>>
    /\ UNCHANGED <<config, candidates, overwrite, rerun, status, running, files, prevPaths>>

-----------------------------------------------------------------------------
(* _process_column and the two backends. *)

NaN == -1

None == -2

\* The p-values a backend can return, in thousandths, and its statistics.
PValues == {10, 600}

Statistics == {7}

isnan(v) == v = NaN

RECURSIVE SeqMin(_)
SeqMin(q) ==
    IF Len(q) = 1 THEN q[1]
    ELSE LET m == SeqMin(Tail(q)) IN IF q[1] <= m THEN q[1] ELSE m

\* The grouping column a task carries: mf[col].dropna().
Series(cseries) ==
    LET col == Table(cseries[1])[cseries[2]]
    IN  [s \in dropna(col) |-> col[s]]

\* values.keys(): the labels of cseries.groupby(cseries), sorted.
Keys(cseries) ==
    SelectSeq(LabelOrder,
              LAMBDA l : \E s \in DOMAIN Series(cseries) : Series(cseries)[s] = l)

\* values[k]: the sample identifiers of group k.
Group(cseries, k) ==
    {s \in DOMAIN Series(cseries) : Series(cseries)[s] = k}

\* Faulty variant: only neighbouring labels are paired.
combinations2Adjacent(keys) ==
    Concat([i \in DOMAIN keys |->
      IF i < Len(keys) THEN << <<keys[i], keys[i + 1]>> >> ELSE <<>>])

\* itertools.combinations(keys, 2)
combinations2(keys) ==
    Concat([i \in DOMAIN keys |->
      Concat([j \in DOMAIN keys |->
        IF i < j THEN << <<keys[i], keys[j]>> >> ELSE <<>>])])

\* `if betas:` in _process_column: the backend of a pair.
Method == IF betas # <<>> THEN "beta" ELSE "alpha"

\* Whether the backend raises: data.loc[ids] and data.filter(ids) raise on
\* a sample identifier the measurement does not hold.
BackendRaises(xs, ys) == ~((xs \cup ys) \subseteq MeasuredIds)

\* Faulty variant: the length is the number of samples of the group.
ValuesLenSampleCount(method, data, xs) == Cardinality(xs)

\* len(xval): _alpha returns the group's values that are numbers, _beta the
\* pairwise distances within the group.
ValuesLen(method, data, xs) ==
    IF method = "beta"
    THEN (Cardinality(xs) * (Cardinality(xs) - 1)) \div 2
    ELSE Cardinality({s \in xs : to_numeric(Table(data[1])[data[2]][s]) # NA})

\* Faulty variant: only the p-value is tested.
DiscardedByPvalOnly(pval, stat) == isnan(pval)

\* `if np.isnan(pval) or np.isnan(stat): continue`
Discarded(pval, stat) == isnan(pval) \/ isnan(stat)

\* Faulty variant: the product is clamped to 1.
PooledPvalClamped(qip) ==
    IF qip # <<>>
    THEN (IF Len(qip) * SeqMin(qip) > 1000 THEN 1000 ELSE Len(qip) * SeqMin(qip))
    ELSE None

\* pooled_pval
PooledPval(qip) == IF qip # <<>> THEN Len(qip) * SeqMin(qip) ELSE None

\* results: `if alphas:` picks the keys.
Results(finfo, pairwise_comparisons, pooled_pval) ==
    IF alphas # <<>>
    THEN [div_file |-> finfo[1], alpha_metric |-> finfo[2],
          mapping_file |-> finfo[3], mapping_col |-> finfo[4],
          pairwise_comparisons |-> pairwise_comparisons,
          pooled_pval |-> pooled_pval]
    ELSE [div_file |-> finfo[1], mapping_file |-> finfo[2],
          mapping_col |-> finfo[3], permuations |-> finfo[4],
          pairwise_comparisons |-> pairwise_comparisons,
          pooled_pval |-> pooled_pval]

\* A file that open(fname, 'wb') has created or truncated and pickle.dump
\* has not yet filled.
Truncated == [truncated |-> TRUE]

\* A worker takes the next task and computes `values`.
StartTask ==
    /\ queue # <<>>
    /\ Cardinality(running) < Workers
    /\ running' = running \cup
         {[task |-> Head(queue), pairs |-> combinations2(Keys(Head(queue).cseries)),
           k |-> 0, qip |-> <<>>, pairwise_comparisons |-> <<>>,
           pval |-> None, stat |-> None, method |-> "none", pc |-> "loop"]}
    /\ queue' = Tail(queue)
    /\ UNCHANGED <<config, candidates, overwrite, rerun, status, gi, files, nEmitted, prevPaths>>

\* The state of a call after the backend returned (pval, stat) for its next pair.
AfterPair(w, pval, stat) ==
    LET x == w.pairs[w.k + 1][1]
        y == w.pairs[w.k + 1][2]
        base == [w EXCEPT !.k = w.k + 1, !.pval = pval, !.stat = stat,
                          !.method = Method]
    IN  IF Discarded(pval, stat)
        THEN base
        ELSE [base EXCEPT
                !.qip = Append(w.qip, pval),
                !.pairwise_comparisons = Append(w.pairwise_comparisons,
                    [pval |-> pval,
                     x |-> x,
                     x_len |-> ValuesLen(Method, w.task.data,
                                         Group(w.task.cseries, x)),
                     y |-> y,
                     y_len |-> ValuesLen(Method, w.task.data,
                                         Group(w.task.cseries, y))])]

\* One iteration of the loop over the pairs of groups.
ComparePair(w) ==
    /\ w.pc = "loop"
    /\ w.k < Len(w.pairs)
    /\ ~BackendRaises(Group(w.task.cseries, w.pairs[w.k + 1][1]),
                      Group(w.task.cseries, w.pairs[w.k + 1][2]))
    /\ \E pval \in PValues \cup {NaN}, stat \in Statistics \cup {NaN} :
         running' = (running \ {w}) \cup {AfterPair(w, pval, stat)}
    /\ UNCHANGED <<config, candidates, overwrite, rerun, status, gi, queue, files, nEmitted,
                   prevPaths>>

\* Faulty variant: the tasks that wait survive the exception of another task.
AfterRaiseKept(q) == q

\* The tasks that still wait once a call has raised: the exception leaves
\* the for loop, and joblib's Parallel re-raises it in effect_size and
\* aborts what it had dispatched.
AfterRaise(q) == <<>>

\* Faulty variant: the artifact is opened before the loop over the pairs.
OpenedBeforeLoop(w) == (w.task.fname :> Truncated) @@ files

\* The output directory when a call leaves its loop by an exception: the
\* call opens its artifact only after the loop, so it has touched nothing.
FilesAfterRaise(w) == files

\* The backend raises: the exception ends the call and the run; tasks not
\* yet started are never started.
BackendError(w) ==
    /\ w.pc = "loop"
    /\ w.k < Len(w.pairs)
    /\ BackendRaises(Group(w.task.cseries, w.pairs[w.k + 1][1]),
                     Group(w.task.cseries, w.pairs[w.k + 1][2]))
    /\ running' = running \ {w}
    /\ status' = "error"
    /\ queue' = AfterRaise(queue)
    /\ files' = FilesAfterRaise(w)
    /\ UNCHANGED <<config, candidates, overwrite, rerun, gi, nEmitted, prevPaths>>

\* The loop is over: open(fname, 'wb') creates or truncates the artifact.
OpenArtifact(w) ==
    /\ w.pc = "loop"
    /\ w.k = Len(w.pairs)
    /\ files' = (w.task.fname :> Truncated) @@ files
    /\ running' = (running \ {w}) \cup {[w EXCEPT !.pc = "dump"]}
    /\ UNCHANGED <<config, candidates, overwrite, rerun, status, gi, queue, nEmitted, prevPaths>>

\* pickle.dump(results, f), and the call returns.
DumpArtifact(w) ==
    /\ w.pc = "dump"
    /\ files' = (w.task.fname :>
                   Results(w.task.finfo, w.pairwise_comparisons,
                           PooledPval(w.qip))) @@ files
    /\ running' = running \ {w}
    /\ UNCHANGED <<config, candidates, overwrite, rerun, status, gi, queue, nEmitted, prevPaths>>

\* effect_size returns: the generator is exhausted and every call returned.
Return ==
    /\ status = "running"
    /\ gi > Len(candidates)
    /\ queue = <<>>
    /\ running = {}
    /\ status' = "done"
    /\ UNCHANGED <<config, candidates, overwrite, rerun, gi, queue, running, files, nEmitted,
                   prevPaths>>

\* The process is interrupted (killed, power loss): every call in progress
\* stops where it is, and what is on disk stays as it is.
Interrupt ==
    /\ status = "running"
    /\ status' = "interrupted"
    /\ queue' = <<>>
    /\ running' = {}
    /\ UNCHANGED <<config, candidates, overwrite, rerun, gi, files, nEmitted, prevPaths>>

\* effect_size is called again with the same inputs and output directory.
Rerun ==
    /\ status = "done"
    /\ rerun' = TRUE
    /\ overwrite' \in BOOLEAN
    /\ status' = "running"
    /\ candidates' = CrossProduct
    /\ gi' = 1
    /\ nEmitted' = 0
    /\ prevPaths' = DOMAIN files
    /\ UNCHANGED <<config, queue, running, files>>

Init ==
    /\ mappings \in SubSeqsUpTo(MappingFiles, MaxMappings) \ {<<>>}
    /\ alphas \in SubSeqsUpTo(AlphaFiles, Len(AlphaFiles))
    /\ betas \in SubSeqsUpTo(BetaFiles, Len(BetaFiles))
    /\ jobs \in {1, MaxJobs}
    /\ permutations \in PermutationCounts
    /\ overwrite \in BOOLEAN
    /\ rerun = FALSE
    /\ status = "running"
    /\ candidates = CrossProduct
    /\ gi = 1
    /\ queue = <<>>
    /\ running = {}
    /\ files = <<>>
    /\ nEmitted = 0
    /\ prevPaths = {}

Next ==
    \/ Generate
    \/ StartTask
    \/ \E w \in running : ComparePair(w)
    \/ \E w \in running : BackendError(w)
    \/ \E w \in running : OpenArtifact(w)
    \/ \E w \in running : DumpArtifact(w)
    \/ Return
    \/ Interrupt
    \/ Rerun

Spec == Init /\ [][Next]_vars

-----------------------------------------------------------------------------
(* Helpers of the properties. *)

\* The artifacts of the output directory that hold a complete result.
Artifacts == {f \in DOMAIN files : files[f] # Truncated}

\* The descriptor an artifact records, in the order of finfo.
DescriptorOf(a) ==
    IF "alpha_metric" \in DOMAIN a
    THEN <<a.div_file, a.alpha_metric, a.mapping_file, a.mapping_col>>
    ELSE <<a.div_file, a.mapping_file, a.mapping_col, a.permuations>>

\* The labels of a grouping column that some sample carries, read off the table.
LabelsOf(cseries) ==
    {Table(cseries[1])[cseries[2]][s] : s \in MappedIds(cseries[1])} \ {NA}

SetMin(S) == CHOOSE m \in S : \A n \in S : m <= n

\* The samples of a grouping column that carry a label, read off the table.
SamplesOf(cseries, label) ==
    {s \in MappedIds(cseries[1]) : Table(cseries[1])[cseries[2]][s] = label}

\* The generator has just gone through combination gi.
Generated == gi' = gi + 1

\* The paths of the combinations the generator has gone through that did
\* not exist when the run began.
NewPaths == {candidates[i].fname : i \in 1..(gi - 1)} \ prevPaths

-----------------------------------------------------------------------------
(* C1: a generator yields the combination it reaches if and only if no     *)
(* file exists at its artifact path at that moment or overwrite is set;    *)
(* every task a _process_column call starts on is one the generator        *)
(* yielded.                                                                *)
C1_EmitIffAbsentOrOverwrite ==
    [][/\ Generated =>
            IF candidates[gi].fname \notin DOMAIN files \/ overwrite
            THEN queue' = Append(queue, candidates[gi]) /\ nEmitted' = nEmitted + 1
            ELSE queue' = queue /\ nEmitted' = nEmitted
       /\ \A w \in running' \ running :
            w.k = 0 /\ w.pc = "loop" => queue # <<>> /\ w.task = Head(queue)
      ]_vars

\* A run with overwrite off went through its combinations, found them all
\* cached and yielded nothing.
C1_Witness ==
    /\ ~overwrite
    /\ gi > Len(candidates)
    /\ Len(candidates) > 0
    /\ nEmitted = 0
    /\ \A i \in 1..Len(candidates) : candidates[i].fname \in DOMAIN files

(* C2: a run with overwrite off that follows a run which returned without  *)
(* error yields no task and leaves every file of the output directory as   *)
(* it was.                                                                 *)
C2_Idempotent ==
    /\ [](rerun /\ ~overwrite => nEmitted = 0 /\ queue = <<>> /\ running = {})
    /\ [][rerun /\ ~overwrite => files' = files]_vars

\* Such a second run returned, over inputs with a column of one group.
C2_Witness ==
    /\ rerun
    /\ ~overwrite
    /\ status = "done"
    /\ Len(candidates) > 1
    /\ \E f \in Artifacts : files[f].pooled_pval = None

(* C3: a run with overwrite on that follows a run which returned yields    *)
(* every combination again, each with the path it had, and creates no      *)
(* artifact path: the set of paths stays the set the earlier run left.     *)
C3_OverwriteSamePaths ==
    rerun /\ overwrite =>
        /\ DOMAIN files = prevPaths
        /\ nEmitted = gi - 1
        /\ \A i \in 1..Len(candidates) : candidates[i].fname \in prevPaths

C3_Witness ==
    /\ rerun
    /\ overwrite
    /\ status = "done"
    /\ nEmitted > 1

(* C4: two combinations whose descriptors differ in some field have        *)
(* different artifact paths.                                               *)
C4_DistinctDescriptorsDistinctPaths ==
    \A i, j \in 1..(gi - 1) :
        candidates[i].finfo # candidates[j].finfo =>
            candidates[i].fname # candidates[j].fname

(* C5: combinations with the same descriptor have the same artifact path,  *)
(* and with overwrite off a generator does not yield a combination while   *)
(* the artifact of a task with the same descriptor exists.                 *)
C5_SameDescriptorCacheHit ==
    /\ [](\A i, j \in 1..Len(candidates) :
            candidates[i].finfo = candidates[j].finfo =>
                candidates[i].fname = candidates[j].fname)
    /\ [][Generated /\ ~overwrite
            /\ (\E f \in Artifacts :
                  DescriptorOf(files[f]) = candidates[gi].finfo)
          => queue' = queue /\ nEmitted' = nEmitted]_vars

\* In a first run two different combinations had the same descriptor, and
\* the second one was skipped.
C5_Witness ==
    /\ ~rerun
    /\ ~overwrite
    /\ \E i, j \in 1..(gi - 1) :
         /\ i < j
         /\ candidates[i].finfo = candidates[j].finfo
         /\ candidates[i].cseries # candidates[j].cseries
         /\ candidates[j].fname \in Artifacts
    /\ nEmitted < gi - 1

(* C6: a run on an empty output directory yields one task for every        *)
(* combination of the cross product and, when it has returned, the         *)
(* directory holds one artifact for every combination.                     *)
C6_OneTaskAndArtifactPerCombination ==
    ~rerun /\ status = "done" =>
        /\ nEmitted = Len(candidates)
        /\ Cardinality(Artifacts) = Len(candidates)

(* C7: the pooled p-value of an artifact is the number of its valid pairs  *)
(* times the least of their p-values, not clamped, and is None exactly     *)
(* when it has no valid pair.                                              *)
C7_PooledPvalue ==
    \A f \in Artifacts :
        LET pc == files[f].pairwise_comparisons
            ps == {pc[i].pval : i \in DOMAIN pc}
        IN  IF pc = <<>>
            THEN files[f].pooled_pval = None
            ELSE files[f].pooled_pval = Len(pc) * SetMin(ps)

\* An artifact with two valid pairs whose pooled p-value is above 1.
C7_Witness ==
    \E f \in Artifacts :
        /\ Len(files[f].pairwise_comparisons) = 2
        /\ files[f].pooled_pval > 1000

C9_AllPairsOnce ==
    \A w \in running :
        LET labels == LabelsOf(w.task.cseries)
            n == Cardinality(labels)
            called == {{w.pairs[i][1], w.pairs[i][2]} : i \in 1..w.k}
        IN  /\ called \subseteq {{a, b} : a, b \in labels}
            /\ \A c \in called : Cardinality(c) = 2
            /\ Cardinality(called) = w.k
            /\ \A i \in DOMAIN w.pairwise_comparisons :
                 {w.pairwise_comparisons[i].x, w.pairwise_comparisons[i].y}
                     \in called
            /\ w.pc = "dump" =>
                 /\ w.k = (n * (n - 1)) \div 2
                 /\ called = {c \in SUBSET labels : Cardinality(c) = 2}

\* A call on a column of three groups (two samples of it carry no label)
\* has finished its loop.
C9_Witness ==
    \E w \in running :
        /\ w.pc = "dump"
        /\ w.k = 3

(* C10: a run given beta inputs is beta throughout (beta generator,        *)
(* multivariate backend, beta artifact), any other run alpha throughout.   *)
C10_ModeNeverMixed ==
    /\ \A i \in 1..Len(candidates) :
         candidates[i].finfo[4] = str(permutations) <=> betas # <<>>
    /\ \A w \in running :
         w.method # "none" => (w.method = "beta" <=> betas # <<>>)
    /\ \A f \in Artifacts :
         "permuations" \in DOMAIN files[f] <=> betas # <<>>

(* C11: a call given neither alpha files nor beta files never returns      *)
(* normally: it ends in an error before a task is generated.               *)
C11_NoInputsNeverReturns ==
    alphas = <<>> /\ betas = <<>> => status # "done"

(* C12: in pooled execution a task that fails takes nothing from the other *)
(* tasks of the run: unless the process is interrupted, a task the         *)
(* generator yielded leaves the waiting line only by being started.        *)
C12_FailureIsLocal ==
    [][Workers > 1 /\ status' # "interrupted" =>
         \A i \in DOMAIN queue :
            \/ \E j \in DOMAIN queue' : queue'[j] = queue[i]
            \/ \E w \in running' : w.task = queue[i] /\ w.k = 0
      ]_vars

(* C12, amended: a task that fails ends the whole run.  Once a call has    *)
(* raised, no task waits any more, the generator is not advanced and no    *)
(* call is started; only calls already in progress go on.                  *)
C12_FailureEndsRun ==
    /\ [](status = "error" => queue = <<>>)
    /\ [][status = "error" =>
            /\ gi' = gi
            /\ nEmitted' = nEmitted
            /\ status' = "error"
            /\ \A v \in running' : \E w \in running : w.task = v.task
         ]_vars

\* A pooled run ended in an error while a task it had yielded was neither
\* started nor written.
C12_Witness ==
    /\ Workers > 1
    /\ status = "error"
    /\ overwrite
    /\ ~rerun
    /\ \E i \in 1..(gi - 1) :
         /\ Keys(candidates[i].cseries) = <<"g1">>
         /\ candidates[i].fname \notin DOMAIN files
         /\ \A w \in running : w.task # candidates[i]

(* C13: after an interruption at any point, a file exists at the artifact  *)
(* path of a combination only if it holds a complete result, so that the   *)
(* test `exists(fname)` of a later run with overwrite off skips exactly    *)
(* the completed tasks.                                                    *)
C13_InterruptLeavesNoPartialFile ==
    status = "interrupted" =>
        \A i \in 1..Len(candidates) :
            exists(candidates[i].fname) => candidates[i].fname \in Artifacts

(* C14: every artifact records the descriptor of a task of its path under  *)
(* the field names of the run's mode: div_file, mapping_file, mapping_col  *)
(* and the permutation count in a beta run (also one given alpha files),   *)
(* div_file, alpha_metric, mapping_file and mapping_col in an alpha run.   *)
C14_ArtifactCarriesOwnDescriptor ==
    \A f \in Artifacts :
        \E i \in 1..Len(candidates) :
            /\ candidates[i].fname = f
            /\ LET a == files[f]
                   finfo == candidates[i].finfo
               IN  IF betas # <<>>
                   THEN /\ {"div_file", "mapping_file", "mapping_col",
                             "permuations"} \subseteq DOMAIN a
                        /\ "alpha_metric" \notin DOMAIN a
                        /\ <<a.div_file, a.mapping_file, a.mapping_col,
                              a.permuations>> = finfo
                   ELSE /\ {"div_file", "alpha_metric", "mapping_file",
                             "mapping_col"} \subseteq DOMAIN a
                        /\ <<a.div_file, a.alpha_metric, a.mapping_file,
                              a.mapping_col>> = finfo

(* C15: within a run a path is written at most once and its artifact is    *)
(* not modified afterwards, and with overwrite off an artifact that exists *)
(* is never rewritten or removed: in a first run (whose artifacts are all  *)
(* of this run) and in any run with overwrite off, no step changes or      *)
(* removes a complete artifact.                                            *)
C15_WrittenOnceNeverRewritten ==
    [][~rerun \/ ~overwrite =>
         \A f \in Artifacts : f \in DOMAIN files' /\ files'[f] = files[f]
      ]_vars

(* C16: when two combinations of a run have the same identifier, both are  *)
(* executed and both write the shared path, in sequential and in pooled    *)
(* execution: in a run on an empty output directory the generator skips    *)
(* no combination it reaches.                                              *)
C16_BothExecuted ==
    ~rerun => nEmitted = gi - 1

(* C16, amended: with overwrite on every combination is yielded, also one  *)
(* that shares its path with an earlier one.  With overwrite off a         *)
(* sequential run yields one task for each path that did not exist when it *)
(* began (the first combination of that path; the later ones are skipped), *)
(* and a pooled run at least that many.  A call that dumps leaves its own  *)
(* result at the path, whatever was there: the last writer wins.           *)
C16_SharedIdentifier ==
    /\ [](overwrite => nEmitted = gi - 1)
    /\ [](~overwrite =>
            /\ Cardinality(NewPaths) <= nEmitted
            /\ nEmitted <= gi - 1
            /\ Workers = 1 => nEmitted = Cardinality(NewPaths))
    /\ [][\A w \in running :
            w.pc = "dump" /\ w \notin running' /\ status' # "interrupted" =>
                /\ w.task.fname \in DOMAIN files'
                /\ files'[w.task.fname] # Truncated
                /\ files'[w.task.fname].pairwise_comparisons =
                       w.pairwise_comparisons
                /\ files'[w.task.fname].div_file = w.task.finfo[1]
         ]_vars

\* A sequential first run with overwrite off returned after it skipped a
\* combination whose descriptor differs from the one that wrote its path.
C16_Witness ==
    /\ Workers = 1
    /\ ~overwrite
    /\ ~rerun
    /\ status = "done"
    /\ nEmitted < Len(candidates)
    /\ \E i, j \in 1..Len(candidates) :
         /\ i < j
         /\ candidates[i].fname = candidates[j].fname
         /\ candidates[i].finfo # candidates[j].finfo
         /\ candidates[i].fname \in Artifacts
         /\ files[candidates[i].fname].mapping_file = candidates[i].finfo[3]

(* C17: a combination whose mapping table holds a sample identifier that   *)
(* the measurement lacks never gets as far as writing an artifact,         *)
(* whatever the number of groups of its column, and a first run that goes  *)
(* through such a combination does not return normally.                    *)
C17_MissingSampleAborts ==
    /\ \A w \in running :
         ~(MappedIds(w.task.cseries[1]) \subseteq MeasuredIds) => w.pc # "dump"
    /\ ~rerun /\ status = "done" =>
         \A i \in 1..Len(candidates) :
            MappedIds(candidates[i].cseries[1]) \subseteq MeasuredIds

(* C18: in every comparison record the size of each side is the number of  *)
(* samples of that group, in alpha and in beta mode alike, and is at       *)
(* least 1.                                                                *)
C18_SizeIsSampleCount ==
    \A w \in running :
        \A i \in DOMAIN w.pairwise_comparisons :
            LET r == w.pairwise_comparisons[i]
            IN  /\ r.x_len = Cardinality(SamplesOf(w.task.cseries, r.x))
                /\ r.y_len = Cardinality(SamplesOf(w.task.cseries, r.y))
                /\ r.x_len >= 1
                /\ r.y_len >= 1

(* C18, amended: the size of a side is the number of values the backend    *)
(* extracted for the group: in a beta run the pairwise distances within    *)
(* the group, n(n-1)/2 for n samples (0 for a group of one sample); in an  *)
(* alpha run the samples of the group whose metric value is a number.      *)
C18_SizeIsValueCount ==
    \A w \in running :
        \A i \in DOMAIN w.pairwise_comparisons :
            LET r == w.pairwise_comparisons[i]
                xs == SamplesOf(w.task.cseries, r.x)
                ys == SamplesOf(w.task.cseries, r.y)
                metric == Table(w.task.data[1])[w.task.data[2]]
            IN  IF betas # <<>>
                THEN /\ 2 * r.x_len = Cardinality(xs) * (Cardinality(xs) - 1)
                     /\ 2 * r.y_len = Cardinality(ys) * (Cardinality(ys) - 1)
                ELSE /\ r.x_len = Cardinality({s \in xs : metric[s] \in Numerals})
                     /\ r.y_len = Cardinality({s \in ys : metric[s] \in Numerals})

\* A beta record of a group of two samples against a group of one: sizes
\* 1 and 0.
C18_Witness ==
    /\ betas # <<>>
    /\ \E w \in running :
         \E i \in DOMAIN w.pairwise_comparisons :
            /\ w.pairwise_comparisons[i].x_len = 1
            /\ w.pairwise_comparisons[i].y_len = 0
            /\ Cardinality(SamplesOf(w.task.cseries,
                                     w.pairwise_comparisons[i].x)) = 2

(* C19: n_jobs controls the executor in every mode: at most n_jobs calls   *)
(* are in progress, and with n_jobs above 1 the executor works as a pool,  *)
(* which takes the next combination from the generator while a call is in  *)
(* progress; it runs one task at a time only when n_jobs is 1.             *)
C19_DegreeControlsExecutor ==
    /\ Cardinality(running) <= jobs
    /\ (/\ jobs > 1
        /\ status = "running"
        /\ gi <= Len(candidates)
        /\ Cardinality(running) = 1
        /\ queue = <<>>) => ENABLED Generate

(* C19, amended: n_jobs controls the executor of a beta run only, where at *)
(* most n_jobs calls are in progress.  An alpha run is sequential whatever *)
(* n_jobs is, as is a beta run with n_jobs = 1: one call at a time, and    *)
(* the next combination is taken from the generator only when the call     *)
(* before it has returned.                                                 *)
C19_DegreeControlsBetaOnly ==
    /\ Cardinality(running) <= (IF betas # <<>> THEN jobs ELSE 1)
    /\ betas = <<>> \/ jobs = 1 =>
         /\ Len(queue) + Cardinality(running) <= 1
         /\ (running # {} => ~ENABLED Generate)

\* An alpha run with n_jobs above 1 has a call in progress and combinations
\* left, after an earlier call wrote its artifact.
C19_Witness ==
    /\ betas = <<>>
    /\ jobs > 1
    /\ status = "running"
    /\ Cardinality(running) = 1
    /\ gi <= Len(candidates)
    /\ ~rerun
    /\ Artifacts # {}

(* C20: a call that returns leaves a complete artifact with its            *)
(* comparison list at its path, with an empty list and a pooled p-value of *)
(* None when no pair was kept; the write comes last: a call that is still  *)
(* in its loop, or leaves it by an exception, changes no file, and only a  *)
(* call whose loop is over does.                                           *)
C20_WriteIsLastStep ==
    [][status' # "interrupted" =>
         /\ \A w \in running \ running' :
              IF w.pc = "dump"
              THEN /\ w.task.fname \in DOMAIN files'
                   /\ files'[w.task.fname] # Truncated
                   /\ files'[w.task.fname].pairwise_comparisons =
                          w.pairwise_comparisons
                   /\ w.pairwise_comparisons = <<>> <=>
                          files'[w.task.fname].pooled_pval = None
              ELSE IF w.k < Len(w.pairs)
              THEN files' = files
              ELSE /\ DOMAIN files' = DOMAIN files \cup {w.task.fname}
                   /\ files'[w.task.fname] = Truncated
         /\ files' # files =>
              \E w \in running \ running' : w.k = Len(w.pairs)
      ]_vars

\* A run ended in an error: the call that raised left no file at its path,
\* and an earlier call on a column of two groups, none of whose pairs was
\* kept, left an artifact with an empty list (no other combination of that
\* path was reached).
C20_Witness ==
    /\ status = "error"
    /\ running = {}
    /\ \E i \in 1..(gi - 1) :
         /\ Len(Keys(candidates[i].cseries)) = 2
         /\ candidates[i].fname \notin DOMAIN files
    /\ \E f \in Artifacts :
         /\ files[f].pairwise_comparisons = <<>>
         /\ files[f].pooled_pval = None
         /\ \E i \in 1..(gi - 1) : candidates[i].fname = f
         /\ \A i \in 1..(gi - 1) :
              candidates[i].fname = f => Len(Keys(candidates[i].cseries)) = 2

====
